---------------------------- MODULE Spec2Model ----------------------------
(***************************************************************************)
(* The scroll-driven cylinder slider (n1ma17/cylandr-slider): the carousel *)
(* layout engine, the wheel-driven snap transition, image loading and the  *)
(* resize handling of the four slider components of the repository.        *)
(*                                                                         *)
(*   "continuous"  src/src/components/CylandrSlider.vue                    *)
(*   "planes"      src/unnamed/part_001                                    *)
(*   "legacy"      src/unnamed/part_002                                    *)
(*   "snap"        src/unnamed/part_003                                    *)
(*                                                                         *)
(* JavaScript numbers are modelled as exact rationals <<n, d>> in lowest   *)
(* terms (d > 0); <<0, 0>> stands for undefined.  Angles are counted in    *)
(* turns (angle / 2 pi), so a mesh position, which the code derives from   *)
(* sin and cos of the angle, is recorded as that angle modulo one turn.    *)
(* A colour lerp(GRAY, WHITE, f) is recorded as its factor f.              *)
(***************************************************************************)
EXTENDS Integers, Sequences, FiniteSets, TLC

(***************************************************************************)
(* Bounds of the model.                                                    *)
(***************************************************************************)
\* progress values are the multiples of 1/Grid in [0,1]
Grid == 2
\* image counts the pure layout functions are evaluated for
MaxImages == 6
\* sample points per image segment in the pure layout specification
SubSteps == 4

(***************************************************************************)
(* Exact rational arithmetic.                                              *)
(***************************************************************************)
Abs(n) == IF n < 0 THEN -n ELSE n

RECURSIVE GCD(_, _)
GCD(a, b) == IF b = 0 THEN a ELSE GCD(b, a % b)

Rat(n, d) ==
    LET s == IF d < 0 THEN -1 ELSE 1
        g == GCD(Abs(n), Abs(d))
    IN  <<(s * n) \div g, (s * d) \div g>>

Undef == <<0, 0>>
Zero == <<0, 1>>
One == <<1, 1>>
IsNum(x) == x[2] > 0

RAdd(x, y) == Rat(x[1] * y[2] + y[1] * x[2], x[2] * y[2])
RSub(x, y) == Rat(x[1] * y[2] - y[1] * x[2], x[2] * y[2])
RMul(x, y) == Rat(x[1] * y[1], x[2] * y[2])
RDiv(x, y) == Rat(x[1] * y[2], x[2] * y[1])
RLess(x, y) == x[1] * y[2] < y[1] * x[2]
RLeq(x, y) == x[1] * y[2] <= y[1] * x[2]
RMin(x, y) == IF RLess(y, x) THEN y ELSE x
RMax(x, y) == IF RLess(x, y) THEN y ELSE x
RNeg(x) == <<-x[1], x[2]>>
\* Math.floor
RFloor(x) == x[1] \div x[2]
\* the JavaScript remainder x % y for x >= 0 and y > 0
RMod(x, y) == RSub(x, RMul(Rat(RFloor(RDiv(x, y)), 1), y))
\* the fractional part of x, in [0,1)
Frac(x) == RSub(x, Rat(RFloor(x), 1))

(***************************************************************************)
(* The pure layout functions of updateLayersForProgress.                   *)
(***************************************************************************)
\* easeInOutCubic with the first branch dropped
easeInOutCubicOneBranch(t) ==
    RSub(One, RDiv(RMul(RSub(Rat(2, 1), RMul(Rat(2, 1), t)),
                        RMul(RSub(Rat(2, 1), RMul(Rat(2, 1), t)),
                             RSub(Rat(2, 1), RMul(Rat(2, 1), t)))), Rat(2, 1)))

easeInOutCubic(t) ==
    IF RLess(t, Rat(1, 2))
    THEN RMul(Rat(4, 1), RMul(t, RMul(t, t)))
    ELSE LET u == RAdd(RMul(Rat(-2, 1), t), Rat(2, 1))
         IN  RSub(One, RDiv(RMul(u, RMul(u, u)), Rat(2, 1)))

\* the per-segment eased progress for imageCount image layers
EasedProgress(progress, imageCount) ==
    IF imageCount > 0
    THEN LET progressPerImage == Rat(1, imageCount)
             segmentIdx == RFloor(RDiv(progress, progressPerImage))
             localProgress == RDiv(RMod(progress, progressPerImage), progressPerImage)
             easedLocal == easeInOutCubic(localProgress)
         IN  RMul(RAdd(Rat(segmentIdx, 1), easedLocal), progressPerImage)
    ELSE progress

\* the crossfade factors for t without the segmentIndex === 2 clamp
CrossfadeFactorsNoClamp(t) ==
    LET segmentIndex == RFloor(t)
        a == RSub(t, Rat(segmentIndex, 1))
    IN  [i \in 0..2 |->
            IF segmentIndex >= 0 /\ segmentIndex < 3 /\ i = segmentIndex THEN RSub(One, a)
            ELSE IF segmentIndex >= 0 /\ segmentIndex < 3 /\ i = segmentIndex + 1 THEN a
            ELSE Zero]

\* the array textColorFactors for t, indexed 0..2 as in the code
CrossfadeFactors(t) ==
    LET segmentIndex == RFloor(t)
        a == RSub(t, Rat(segmentIndex, 1))
    IN  [i \in 0..2 |->
            IF segmentIndex = 2 /\ i = 2 THEN One
            ELSE IF segmentIndex >= 0 /\ segmentIndex < 3 /\ i = segmentIndex
            THEN RSub(One, a)
            ELSE IF segmentIndex >= 0 /\ segmentIndex < 3
                    /\ segmentIndex + 1 < 3 /\ i = segmentIndex + 1
            THEN a
            ELSE Zero]

\* the factors with t = progress * 3, not capped below 3
TextColorFactorsNoCap(progress) == CrossfadeFactors(RMul(progress, Rat(3, 1)))

\* textColorFactors of updateLayersForProgress(progress, ...):
\* t = Math.min(2.999999, progress * 3)
TextColorFactors(progress) ==
    CrossfadeFactors(RMin(Rat(2999999, 1000000), RMul(progress, Rat(3, 1))))

(***************************************************************************)
(* Program constants.                                                      *)
(***************************************************************************)
Variants == {"continuous", "planes", "legacy", "snap"}

\* the six image paths of createImageCylinders / initScene
NumPaths == 6

\* const scrollDirection
scrollDirection(v) == IF v \in {"planes", "legacy"} THEN Rat(-1, 1) ELSE Rat(1, 1)

\* totalScrollDistance of setupScrollAnimation (legacy: end '+=2000')
totalScrollDistance(v, imageCount) ==
    IF v = "legacy" \/ imageCount = 0 THEN 2000
    ELSE IF v = "snap" THEN imageCount * 700 ELSE imageCount * 500

\* const speeds = [0.1, 0.07, 0.086], indexed by the line's idx
speeds(idx) == CASE idx = 0 -> Rat(1, 10) [] idx = 1 -> Rat(7, 100) [] OTHER -> Rat(86, 1000)

imageSpeed == Rat(28, 100)

(***************************************************************************)
(* Layers.  A layer is a record with every field of every layer shape;     *)
(* a field a shape lacks is "none", -1, 0 or Undef.                        *)
(*   type, index   the fields of a typed text layer                        *)
(*   image         the position in paths of the image the layer shows      *)
(*   offset        texture.offset.x                                        *)
(*   color         the factor f of material.color = lerp(GRAY, WHITE, f)   *)
(*   pos           mesh.position and orientation, as an angle in [0,1)     *)
(*   geom          mesh.geometry                                           *)
(***************************************************************************)
NoLayer ==
    [type |-> "none", index |-> -1, image |-> 0, speed |-> Undef, phase |-> Undef,
     angle |-> Undef, offset |-> Zero, color |-> Zero, pos |-> Undef,
     geom |-> <<"cyl", 0>>, isPlane |-> FALSE]

\* createTextCylinders: one layer per line; legacy builds them untyped in initScene
createTextCylinders(v, geometry) ==
    [k \in 1..3 |->
        IF v = "legacy"
        THEN [NoLayer EXCEPT !.speed = speeds(k - 1), !.geom = geometry]
        ELSE [NoLayer EXCEPT !.type = "text", !.index = k - 1,
                             !.speed = speeds(k - 1), !.geom = geometry]]

\* createTextCylinders of src/composables/useTextCylinders.js, the file the
\* components import it from: the layers are { mesh, texture, speed }, with
\* no type and no index
useTextCylinders(geometry) ==
    [k \in 1..3 |-> [NoLayer EXCEPT !.speed = speeds(k - 1), !.geom = geometry]]

\* image layers that all get the phase of the first
createImageCylindersOnePhase(v, n, geometry) ==
    [k \in 1..n |->
        [NoLayer EXCEPT !.image = k, !.speed = imageSpeed, !.phase = Zero,
                        !.angle = Zero, !.pos = Zero, !.geom = <<"plane", k>>]]

\* createImageCylinders / buildImageLayers for n loaded images
createImageCylinders(v, n, geometry) ==
    [k \in 1..n |->
        CASE v = "legacy" ->
                [NoLayer EXCEPT !.image = k, !.speed = imageSpeed, !.geom = geometry]
          [] v = "snap" ->
                [NoLayer EXCEPT !.image = k, !.speed = imageSpeed,
                                !.phase = Rat(k - 1, n), !.angle = Rat(k - 1, n),
                                !.pos = Frac(Rat(k - 1, n)), !.offset = Undef,
                                !.geom = <<"plane", k>>]
          [] OTHER ->
                [NoLayer EXCEPT !.image = k, !.speed = imageSpeed,
                                !.phase = Rat(k - 1, n), !.isPlane = TRUE,
                                !.geom = <<"plane", k>>]]

IsImageLayer(layer) == IsNum(layer.phase)

ImageCount(layers) == Cardinality({i \in DOMAIN layers : IsImageLayer(layers[i])})

(***************************************************************************)
(* updateLayersForProgress.                                                *)
(***************************************************************************)
\* the layer with every animated property at its target and, for a text
\* layer, its colour set, given easedProgress and textColorFactors
LayerPlaced(v, layer, eased, factors, startPhaseOffset, updateImages) ==
    LET dir == scrollDirection(v)
        turn == RMul(RSub(RAdd(startPhaseOffset, layer.phase), eased), dir)
        asText == [layer EXCEPT !.color = factors[layer.index],
                                !.offset = RMul(RMul(eased, dir), layer.speed)]
    IN  CASE v = "continuous" ->
                IF IsImageLayer(layer) THEN [layer EXCEPT !.offset = turn]
                ELSE IF layer.type = "text" THEN asText
                ELSE [layer EXCEPT !.offset = Undef]
          [] v = "planes" ->
                IF IsImageLayer(layer) THEN [layer EXCEPT !.pos = Frac(turn)]
                ELSE IF layer.type = "text" THEN asText
                ELSE layer
          [] v = "snap" ->
                IF IsImageLayer(layer)
                THEN IF updateImages
                     THEN [layer EXCEPT !.angle = turn, !.pos = Frac(turn)]
                     ELSE layer
                ELSE IF layer.type = "text" THEN asText
                ELSE layer
          [] OTHER -> layer

\* a forEach that places the image layers whatever updateImages says
PlaceAllImagesToo(v, layers, eased, factors, startPhaseOffset, updateImages) ==
    [i \in DOMAIN layers |->
        LayerPlaced(v, layers[i], eased, factors, startPhaseOffset, TRUE)]

\* the forEach of a direct update, given easedProgress and textColorFactors
PlaceAll(v, layers, eased, factors, startPhaseOffset, updateImages) ==
    [i \in DOMAIN layers |->
        LayerPlaced(v, layers[i], eased, factors, startPhaseOffset, updateImages)]

\* an update that adds the targets to the layers' current offsets
UpdateDirectAccumulating(v, layers, progress, startPhaseOffset, updateImages) ==
    [i \in DOMAIN layers |->
        [layers[i] EXCEPT
            !.offset = IF IsNum(layers[i].offset)
                       THEN RAdd(layers[i].offset, RAdd(progress, One)) ELSE Zero,
            !.color = RAdd(layers[i].color, One)]]

\* updateLayersForProgress(progress, startPhaseOffset, true, updateImages)
UpdateDirect(v, layers, progress, startPhaseOffset, updateImages) ==
    PlaceAll(v, layers,
             IF v = "planes" THEN progress
             ELSE EasedProgress(progress, ImageCount(layers)),
             TextColorFactors(progress), startPhaseOffset, updateImages)

NoTween == [layer |-> 0, prop |-> "none", to |-> Undef, end |-> Zero, kind |-> "none"]

\* the tweens that take the layers to tgt: end is delay + duration in
\* milliseconds
TweensTo(v, layers, tgt, updateImages) ==
    LET T(i, prop, to, ms, kind) ==
            [layer |-> i, prop |-> prop, to |-> to, end |-> Rat(ms, 1), kind |-> kind]
    IN  CASE v = "continuous" ->
                {T(i, "offset", tgt[i].offset, 200, "layout") : i \in DOMAIN layers}
          [] v = "planes" ->
                {T(i, "position", tgt[i].pos, 600, "layout") :
                    i \in {j \in DOMAIN layers : IsImageLayer(layers[j])}}
                \cup {T(i, "rotation", tgt[i].pos, 450, "untracked") :
                    i \in {j \in DOMAIN layers : IsImageLayer(layers[j])}}
                \cup {T(i, "offset", tgt[i].offset, 450, "layout") :
                    i \in {j \in DOMAIN layers : ~IsImageLayer(layers[j])
                                                  /\ layers[j].type = "text"}}
          [] v = "snap" ->
                {T(i, "position", tgt[i].angle, 400, "layout") :
                    i \in {j \in DOMAIN layers : IsImageLayer(layers[j]) /\ updateImages}}
                \cup {T(i, "offset", tgt[i].offset, 300, "layout") :
                    i \in {j \in DOMAIN layers : ~IsImageLayer(layers[j])
                                                  /\ layers[j].type = "text"}}
          [] OTHER -> {}

\* the tweens updateLayersForProgress(progress, startPhaseOffset, false,
\* updateImages) starts
LayoutTweens(v, layers, progress, startPhaseOffset, updateImages) ==
    TweensTo(v, layers,
             UpdateDirect(v, layers, progress, startPhaseOffset, updateImages),
             updateImages)

\* the layers right after an animated update: only the text colours are set
UpdateAnimated(v, layers, progress) ==
    [i \in DOMAIN layers |->
        IF ~IsImageLayer(layers[i]) /\ layers[i].type = "text"
        THEN [layers[i] EXCEPT !.color = TextColorFactors(progress)[layers[i].index]]
        ELSE layers[i]]

(***************************************************************************)
(* The state of one mounted component.                                     *)
(***************************************************************************)
VARIABLES
    variant,               \* which of the four components this is
    mounted,               \* FALSE once onUnmounted has run
    loads,                 \* per image path: "pending", "ok" or "failed"
    joined,                \* createImageCylinders: "waiting", "resolved", "rejected"
    textCylinders,         \* the layer list
    currentScrollProgress,
    scrollTrigger,         \* a ScrollTrigger created by the component is alive
    wheelListener,         \* the component's wheel listener is registered
    activeTweens,          \* Map idx -> tween (NoTween: no entry)
    tweens,                \* the live gsap tweens: batches in start order
    transition,            \* isTransitioning, completed, total, targetIndex
    scrollTween,           \* part_001: the tween of the progress proxy
    window,                \* <<innerWidth, innerHeight>>
    lastWindowSize,
    rendererSize,          \* the size last given to renderer.setSize
    resizePending,         \* the debounce timer is scheduled
    sharedGeometry,
    geometries,            \* geometry -> number of dispose() calls on it
    resizes,               \* resize events so far
    wheels,                \* wheel events so far
    lastEvent,             \* the handler that ran last
    host,                  \* the page: WebGL and ScrollTrigger availability, the
                           \* failure logged, the exceptions that escaped
    probe                  \* the pure layout specification's input and results

vars ==
    <<variant, mounted, loads, joined, textCylinders, currentScrollProgress,
      scrollTrigger, wheelListener, activeTweens, tweens, transition, scrollTween,
      window, lastWindowSize, rendererSize, resizePending, sharedGeometry,
      geometries, resizes, wheels, lastEvent, host, probe>>

\* bounds on the inputs
MaxResizes == 2
MaxWheels == 2
MaxRotation == 1
MaxFailures == 1
MaxUncaught == 2

WindowSizes == {<<1, 1>>, <<1, 2>>}
ProgressValues == {Rat(k, Grid) : k \in 0..Grid}
\* wheel events: deltaY = m * totalScrollDistance / Grid
\* which images fail to load
LoadResults == {f \in SUBSET (1..NumPaths) : Cardinality(f) <= MaxFailures}
WheelSteps == {-1, 0, 1}

NoTransition == [active |-> FALSE, completed |-> 0, total |-> 0, targetIndex |-> 0]
NoScrollTween == [active |-> FALSE, p |-> Zero, to |-> Zero]
NoProbe ==
    [n |-> 0, p |-> Zero, applied |-> FALSE, eased |-> Undef,
     factors |-> [i \in 0..2 |-> Undef]]

\* the handler that ran, and whether a snap transition was running when it did
Event(kind) == [kind |-> kind, during |-> transition.active]

\* the image layers of the list, in list order (setupScrollAnimation's imageLayers)
ImageIdx(layers) == {i \in DOMAIN layers : IsImageLayer(layers[i])}

\* a ScrollTrigger that exists although its creation threw
ObserverCreatedAnyway(available) == TRUE

\* try { ScrollTrigger.create(...) } catch { }: the observer exists if the
\* creation did not throw
ObserverCreated(available) == available

\* onMounted has run (initScene, animate, the resize listener) on a page where
\* new THREE.WebGLRenderer succeeds if webgl and ScrollTrigger.create if
\* observer.  Without WebGL initScene logs and returns before it creates
\* anything, and animate, which onMounted calls next, throws on
\* renderer.render, renderer being undefined: onMounted ends there.
MountedOn(webgl, observer) ==
    /\ variant \in Variants
    /\ mounted = TRUE
    /\ host = [webgl |-> webgl, observer |-> observer, logged |-> ~webgl,
               thrownInMount |-> ~webgl, uncaught |-> 0]
    /\ loads = [i \in 1..NumPaths |-> "pending"]
    /\ joined = "waiting"
    /\ sharedGeometry = IF webgl THEN <<"cyl", 1>> ELSE <<"cyl", 0>>
    /\ geometries = IF webgl THEN (<<"cyl", 1>> :> 0) ELSE <<>>
    /\ textCylinders =
          IF webgl THEN createTextCylinders(variant, <<"cyl", 1>>) ELSE <<>>
    /\ currentScrollProgress = Zero
    /\ scrollTrigger = (variant = "legacy" /\ ObserverCreated(observer))
    /\ wheelListener = (variant = "legacy")
    /\ activeTweens = [i \in 1..(3 + NumPaths) |-> NoTween]
    /\ tweens = <<>>
    /\ transition = NoTransition
    /\ scrollTween = NoScrollTween
    /\ window = <<1, 1>>
    /\ lastWindowSize = <<0, 0>>
    /\ rendererSize = <<1, 1>>
    /\ resizePending = FALSE
    /\ resizes = 0
    /\ wheels = 0
    /\ lastEvent = [kind |-> "mount", during |-> FALSE]

\* onMounted has run on a page with WebGL and a scrollable area
Mounted == MountedOn(TRUE, TRUE)

Init == Mounted /\ probe = NoProbe

(***************************************************************************)
(* Image loading: createImageCylinders awaits Promise.all over the loads   *)
(* and catches its rejection; initScene's then-callback adds the layers.   *)
(***************************************************************************)
\* a start offset of half a step
StartPhaseOffsetHalfStep(imageCount) ==
    IF imageCount > 0 THEN Rat(1, 2 * imageCount) ELSE Zero

\* setupScrollAnimation's startPhaseOffset
StartPhaseOffset(imageCount) == IF imageCount > 0 THEN Rat(1, imageCount) ELSE Zero

\* the then-callback's layer list: the image layers appended and placed
ThenImageLayers(v, layers, geometry, progress) ==
    LET all == layers \o createImageCylinders(v, NumPaths, geometry)
        spo == Rat(1, NumPaths)
        turn(l) == RMul(RSub(RAdd(spo, l.phase), progress), scrollDirection(v))
    IN  [i \in DOMAIN all |->
            IF v = "continuous" /\ IsImageLayer(all[i])
            THEN [all[i] EXCEPT !.offset = turn(all[i])]
            ELSE IF v = "planes" /\ IsImageLayer(all[i]) /\ all[i].isPlane
            THEN [all[i] EXCEPT !.pos = Frac(turn(all[i]))]
            ELSE all[i]]

\* Promise.all rejects on the first failure: the catch returns no layers
LoadOutcomeAllOrNothing(ls) ==
    IF \E j \in DOMAIN ls : ls[j] = "failed" THEN "rejected"
    ELSE IF \A j \in DOMAIN ls : ls[j] = "ok" THEN "resolved"
    ELSE "waiting"

\* the images of failed fail to load and the others load: Promise.all settles
\* and the promise chain runs on to the end of initScene's then-callback
ImagesSettle(failed) ==
    /\ joined = "waiting"
    /\ host.webgl
    /\ loads' = [i \in 1..NumPaths |-> IF i \in failed THEN "failed" ELSE "ok"]
    /\ joined' = LoadOutcomeAllOrNothing(loads')
    /\ lastEvent' = Event("load")
    /\ IF joined' = "resolved"
       THEN /\ textCylinders' =
                  ThenImageLayers(variant, textCylinders, sharedGeometry,
                                  currentScrollProgress)
            \* setupScrollAnimation(imageLayers.length); legacy set up at mount
            /\ scrollTrigger' =
                  IF variant = "legacy" THEN scrollTrigger
                  ELSE ObserverCreated(host.observer)
            /\ wheelListener' = (variant # "legacy" \/ wheelListener)
       ELSE UNCHANGED <<textCylinders, scrollTrigger, wheelListener>>
    /\ UNCHANGED <<variant, host, mounted, currentScrollProgress, activeTweens, tweens,
                   transition, scrollTween, window, lastWindowSize, rendererSize,
                   resizePending, sharedGeometry, geometries, resizes, wheels, probe>>

(***************************************************************************)
(* The scroll observer's onUpdate.                                         *)
(***************************************************************************)
ScrollUpdate(p) ==
    /\ scrollTrigger
    /\ lastEvent' = Event("scroll")
    /\ IF variant = "legacy"
       THEN /\ textCylinders' =
                  [i \in DOMAIN textCylinders |->
                      [textCylinders[i] EXCEPT !.offset =
                          RMul(RMul(p, textCylinders[i].speed), scrollDirection(variant))]]
            /\ UNCHANGED currentScrollProgress
       ELSE /\ currentScrollProgress' = p
            /\ textCylinders' =
                  UpdateDirect(variant, textCylinders, p,
                               StartPhaseOffset(ImageCount(textCylinders)),
                               variant # "snap")
    /\ UNCHANGED <<variant, host, mounted, loads, joined, scrollTrigger, wheelListener,
                   activeTweens, tweens, transition, scrollTween, window,
                   lastWindowSize, rendererSize, resizePending, sharedGeometry,
                   geometries, resizes, wheels, probe>>

(***************************************************************************)
(* gsap: kill, and the tweens a handler starts.                            *)
(***************************************************************************)
\* tween.kill() for every tween of victims
KillAll(tws, victims) ==
    SelectSeq([b \in DOMAIN tws |-> tws[b] \ victims], LAMBDA batch : batch # {})

LiveTweens == UNION {tweens[b] : b \in DOMAIN tweens}

\* the Map after the handler killed the old entry of every layer that got a
\* tracked tween in batch and set the new one
TrackBatch(map, batch) ==
    [i \in DOMAIN map |->
        IF \E t \in batch : t.layer = i /\ t.kind \in {"layout", "transition"}
        THEN CHOOSE t \in batch : t.layer = i /\ t.kind \in {"layout", "transition"}
        ELSE map[i]]

\* the old entries that handler killed
Superseded(map, batch) ==
    {map[i] : i \in {j \in DOMAIN map :
                        \E t \in batch : t.layer = j
                                         /\ t.kind \in {"layout", "transition"}}}
    \ {NoTween}

(***************************************************************************)
(* The snap transition of part_003.                                        *)
(***************************************************************************)
\* x % 1 as JavaScript computes it: the sign of the dividend
TruncRem(a) == IF a[1] >= 0 THEN Frac(a) ELSE RNeg(Frac(RNeg(a)))

\* if (x > Math.PI) x -= Math.PI * 2
WrapHigh(x) == IF RLess(Rat(1, 2), x) THEN RSub(x, One) ELSE x

\* if (x < -Math.PI) x += Math.PI * 2
WrapLow(x) == IF RLess(x, Rat(-1, 2)) THEN RAdd(x, One) ELSE x

\* the remainder alone, without the two wraps
normalizeAngleNoWrap(a) == TruncRem(a)

normalizeAngle(a) == WrapLow(WrapHigh(TruncRem(a)))

RAbs(x) == IF x[1] < 0 THEN RNeg(x) ELSE x

\* the list index of image layer j (0-based position among the image layers)
ImageAt(layers, j) ==
    CHOOSE i \in ImageIdx(layers) : Cardinality({k \in ImageIdx(layers) : k < i}) = j

\* the first image layer whose normalized angle is smallest in absolute value
findCurrentIndex(layers) ==
    LET d == [j \in 0..(ImageCount(layers) - 1) |->
                 RAbs(normalizeAngle(layers[ImageAt(layers, j)].angle))]
    IN  CHOOSE j \in DOMAIN d :
            \A k \in DOMAIN d : IF k < j THEN RLess(d[j], d[k]) ELSE RLeq(d[j], d[k])

\* delay + duration of image layer j's transition tween, in milliseconds
TransitionEnd(j, prevIndex, targetIndex, direction, n) ==
    IF j = prevIndex THEN Rat(420, 1)
    ELSE IF j = targetIndex THEN Rat(120 + 500, 1)
    ELSE LET raw == Abs(j - prevIndex)
             deltaSteps == IF n - raw < raw THEN n - raw ELSE raw
             norm == IF n <= 1 THEN One ELSE RDiv(Rat(deltaSteps, 1), Rat(n, 2))
             clamped == RMax(Zero, RMin(One, norm))
             duration == RAdd(Rat(350, 1), RMul(RSub(One, clamped), Rat(450, 1)))
             delay == Rat(40 * (IF direction > 0 THEN j ELSE n - j), 1)
         IN  RAdd(delay, duration)

\* the guard of performTransition without the isTransitioning test
TransitionBlockedNoFlag(active, n) == n = 0

\* performTransition's early return
TransitionBlocked(active, n) == active \/ n = 0

\* transition tweens that turn the outgoing layer by two steps
TransitionTweensFromUneven(layers, direction, prevIndex) ==
    LET n == ImageCount(layers)
        targetIndex == (prevIndex + direction + n) % n
    IN  {[layer |-> ImageAt(layers, j), prop |-> "angle",
          to |-> RSub(layers[ImageAt(layers, j)].angle,
                      Rat(direction * (IF j = prevIndex THEN 2 ELSE 1), n)),
          end |-> TransitionEnd(j, prevIndex, targetIndex, direction, n),
          kind |-> "transition"] : j \in 0..(n - 1)}

\* the tweens performTransition(direction) starts, prevIndex being the
\* result of findCurrentIndex()
TransitionTweensFrom(layers, direction, prevIndex) ==
    LET n == ImageCount(layers)
        targetIndex == (prevIndex + direction + n) % n
        angleStep == Rat(1, IF n > 1 THEN n ELSE 1)
    IN  {[layer |-> ImageAt(layers, j), prop |-> "angle",
          to |-> RSub(layers[ImageAt(layers, j)].angle,
                      RMul(Rat(direction, 1), angleStep)),
          end |-> TransitionEnd(j, prevIndex, targetIndex, direction, n),
          kind |-> "transition"] : j \in 0..(n - 1)}

TransitionTweens(layers, direction) ==
    TransitionTweensFrom(layers, direction, findCurrentIndex(layers))

\* how many steps the ring has been rotated, counted on the first image layer
Rotation(layers) ==
    LET l == layers[ImageAt(layers, 0)]
    IN  RFloor(RMul(RSub(l.phase, l.angle), Rat(ImageCount(layers), 1)))

(***************************************************************************)
(* The wheel listener.  The event's deltaY is m * totalScrollDistance /    *)
(* Grid, so that the continuous variants' progressDelta is m / Grid.       *)
(***************************************************************************)
\* the accumulated progress taken as it is
Clamp01None(x) == x

Clamp01(x) == RMax(Zero, RMin(One, x))

\* the legacy wheel handler's tweens: offset + step * speed for every layer
LegacyWheelTweens(layers, m) ==
    LET delta == Rat(m * 2000, Grid)
        step == RMul(RMul(delta, Rat(6, 10000)), scrollDirection("legacy"))
    IN  {[layer |-> i, prop |-> "offset",
          to |-> RAdd(layers[i].offset, RMul(step, layers[i].speed)),
          end |-> Rat(200, 1), kind |-> "untracked"] : i \in DOMAIN layers}

\* the tweens the handler starts for wheel input m
WheelBatch(m, newProgress) ==
    LET n == ImageCount(textCylinders)
    IN  CASE variant = "continuous" ->
                LayoutTweens(variant, textCylinders, newProgress,
                             StartPhaseOffset(n), TRUE)
          [] variant = "legacy" -> LegacyWheelTweens(textCylinders, m)
          [] variant = "snap" ->
                IF m = 0 \/ TransitionBlocked(transition.active, n) THEN {}
                ELSE TransitionTweens(textCylinders, IF m > 0 THEN 1 ELSE -1)
          [] OTHER -> {}

\* the handler's writes, batch being the tweens it starts
WheelHandled(m, batch, newProgress) ==
    /\ tweens' =
          IF batch = {} THEN tweens
          ELSE Append(KillAll(tweens, Superseded(activeTweens, batch)), batch)
    /\ activeTweens' = TrackBatch(activeTweens, batch)
    /\ currentScrollProgress' =
          IF variant = "continuous" THEN newProgress ELSE currentScrollProgress
    /\ textCylinders' =
          IF variant = "continuous"
          THEN UpdateAnimated(variant, textCylinders, newProgress)
          ELSE textCylinders
    /\ scrollTween' =
          IF variant = "planes"
          THEN [active |-> TRUE, p |-> currentScrollProgress, to |-> newProgress]
          ELSE scrollTween
    /\ transition' =
          IF variant = "snap" /\ batch # {}
          THEN [active |-> TRUE, completed |-> 0,
                total |-> ImageCount(textCylinders),
                targetIndex |->
                    (findCurrentIndex(textCylinders) + (IF m > 0 THEN 1 ELSE -1)
                     + ImageCount(textCylinders)) % ImageCount(textCylinders)]
          ELSE transition

\* a handler that sets isTransitioning whatever the flag and the image count
WheelDispatchedUnguarded(m, listening) ==
    /\ transition' = [transition EXCEPT !.active = (m # 0 \/ transition.active)]
    /\ UNCHANGED <<tweens, activeTweens, currentScrollProgress, textCylinders,
                   scrollTween>>

\* the wheel event reaches onWheel only if the component has registered it;
\* the snap component registers it in setupScrollAnimation, which the
\* then-callback calls only when image layers were loaded
WheelDispatched(m, listening) ==
    IF listening
    THEN WheelHandled(m, WheelBatch(m, Clamp01(RAdd(currentScrollProgress, Rat(m, Grid)))),
                      Clamp01(RAdd(currentScrollProgress, Rat(m, Grid))))
    ELSE UNCHANGED <<tweens, activeTweens, currentScrollProgress, textCylinders,
                     scrollTween, transition>>

\* a wheel event on the window while the component is mounted, or later if
\* a listener is registered (the then-callback may run after onUnmounted)
Wheel(m) ==
    /\ mounted \/ wheelListener
    /\ variant = "legacy" => wheels < MaxWheels
    /\ (wheelListener /\ variant = "snap" /\ m # 0
        /\ ~TransitionBlocked(transition.active, ImageCount(textCylinders))) =>
            Abs(Rotation(textCylinders) + (IF m > 0 THEN 1 ELSE -1)) <= MaxRotation
    /\ wheels' = IF variant = "legacy" THEN wheels + 1 ELSE wheels
    /\ lastEvent' = Event("wheel")
    /\ WheelDispatched(m, wheelListener)
    /\ UNCHANGED <<variant, host, mounted, loads, joined, scrollTrigger, wheelListener,
                   window, lastWindowSize, rendererSize, resizePending,
                   sharedGeometry, geometries, resizes, probe>>

(***************************************************************************)
(* One gsap tick in which tweens complete.  The tweens of one handler      *)
(* start together, so they complete in the order of delay + duration, and  *)
(* the batches, whose timings are alike, in start order.  Only a tween's   *)
(* last frame, which writes its target, is modelled.                       *)
(***************************************************************************)
\* the tweens of the oldest batch that complete next
Due ==
    LET b == tweens[1]
    IN  {t \in b : \A u \in b : RLeq(t.end, u.end)}

\* layer i after the last frame of the due tweens on it
AfterFrames(layer, i, due) ==
    LET on(prop) == {t \in due : t.layer = i /\ t.prop = prop}
        val(prop) == (CHOOSE t \in on(prop) : TRUE).to
        l1 == IF on("offset") # {} THEN [layer EXCEPT !.offset = val("offset")] ELSE layer
        l2 == IF on("angle") # {}
              THEN [l1 EXCEPT !.angle = val("angle"), !.pos = Frac(val("angle"))]
              ELSE l1
    IN  IF on("position") # {}
        THEN [l2 EXCEPT !.pos = Frac(val("position")),
                        !.angle = IF variant = "snap" THEN val("position") ELSE l2.angle]
        ELSE l2

\* a completion test that the first finished tween passes
AnyCompleted(completed, total) == completed >= 1

\* a completion test that no count passes
NeverCompleted(completed, total) == completed > total

\* onComplete: if (completed === total)
AllCompleted(completed, total) == completed = total

\* the tween list once the due tweens are gone
Remaining ==
    LET rest == tweens[1] \ Due
    IN  IF rest = {} THEN Tail(tweens) ELSE <<rest>> \o Tail(tweens)

GsapTick ==
    LET due == Due
        done == transition.completed + Cardinality({t \in due : t.kind = "transition"})
        finished == transition.active /\ AllCompleted(done, transition.total)
                    /\ \E t \in due : t.kind = "transition"
        framed == [i \in DOMAIN textCylinders |->
                      AfterFrames(textCylinders[i], i, due)]
        n == ImageCount(textCylinders)
    IN  /\ tweens' = Remaining
        /\ activeTweens' =
              [i \in DOMAIN activeTweens |->
                  IF \E t \in due : t.layer = i /\ t.kind \in {"layout", "transition"}
                  THEN NoTween ELSE activeTweens[i]]
        /\ transition' =
              IF finished THEN [transition EXCEPT !.active = FALSE, !.completed = done]
              ELSE [transition EXCEPT !.completed = done]
        /\ textCylinders' =
              IF finished
              THEN UpdateDirect(variant, framed,
                                Rat(transition.targetIndex, IF n > 1 THEN n ELSE 1),
                                Rat(1, IF n > 1 THEN n ELSE 1), FALSE)
              ELSE framed
        /\ UNCHANGED <<currentScrollProgress, scrollTween>>

\* part_001: a frame of the progress proxy's tween, which moves the proxy
\* to q, between its value and its target
ScrollTweenFrame(q) ==
    /\ \/ RLess(scrollTween.p, q) /\ RLeq(q, scrollTween.to)
       \/ RLess(q, scrollTween.p) /\ RLeq(scrollTween.to, q)
       \/ q = scrollTween.to
    /\ currentScrollProgress' = q
    /\ textCylinders' =
          UpdateDirect(variant, textCylinders, q,
                       StartPhaseOffset(ImageCount(textCylinders)), TRUE)
    /\ scrollTween' =
          IF q = scrollTween.to THEN NoScrollTween ELSE [scrollTween EXCEPT !.p = q]
    /\ UNCHANGED <<tweens, activeTweens, transition>>

TweenTick(q) ==
    /\ IF scrollTween.active
       THEN ScrollTweenFrame(q)
       ELSE /\ tweens # <<>>
            /\ q = Zero
            /\ GsapTick
    /\ lastEvent' = Event("tick")
    /\ UNCHANGED <<variant, host, mounted, loads, joined, scrollTrigger, wheelListener,
                   window, lastWindowSize, rendererSize, resizePending,
                   sharedGeometry, geometries, resizes, wheels, probe>>

(***************************************************************************)
(* Resize.  The window takes a size and fires a resize event; the handler  *)
(* of all but the legacy component debounces it by 300 ms.                 *)
(***************************************************************************)
\* the layers whose mesh the handler gives the new shared geometry
GetsSharedGeometry(v, layer) ==
    CASE v = "planes" -> layer.geom[1] = "cyl"
      [] v = "snap" -> layer.type = "text"
      [] OTHER -> TRUE

\* the handler's size test comparing the width only
SizeUnchangedWidthOnly(size, last) == size[1] = last[1]

\* currentWidth === lastWindowSize.width && currentHeight === lastWindowSize.height
SizeUnchanged(size, last) == size[1] = last[1] /\ size[2] = last[2]

\* the geometry new THREE.CylinderGeometry(...) returns
NewGeometry == <<"cyl", Cardinality({g \in DOMAIN geometries : g[1] = "cyl"}) + 1>>

\* the dispose() counts after the handler's sharedGeometry.dispose() and its
\* mesh.geometry.dispose() per selected layer, with the new geometry added
DisposeCounts(v, layers) ==
    LET known == DOMAIN geometries \cup {layers[i].geom : i \in DOMAIN layers}
    IN  [g \in known \cup {NewGeometry} |->
            (IF g \in DOMAIN geometries THEN geometries[g] ELSE 0)
            + (IF g = sharedGeometry THEN 1 ELSE 0)
            + Cardinality({i \in DOMAIN layers :
                              GetsSharedGeometry(v, layers[i]) /\ layers[i].geom = g})]

\* the layer list after the handler's forEach
Regeometried(v, layers) ==
    [i \in DOMAIN layers |->
        IF GetsSharedGeometry(v, layers[i])
        THEN [layers[i] EXCEPT !.geom = NewGeometry]
        ELSE layers[i]]

\* the body of the resize handler past the size test
Rebuild ==
    /\ rendererSize' = window
    /\ geometries' = DisposeCounts(variant, textCylinders)
    /\ sharedGeometry' = NewGeometry
    /\ textCylinders' =
          LET layers == Regeometried(variant, textCylinders)
          IN  IF variant = "planes"
              THEN UpdateDirect(variant, layers, currentScrollProgress,
                                StartPhaseOffset(ImageCount(layers)), TRUE)
              ELSE layers

WindowResize(size) ==
    /\ mounted
    /\ host.webgl
    /\ resizes < MaxResizes
    /\ resizes' = resizes + 1
    /\ window' = size
    /\ lastEvent' = Event("resize")
    /\ IF variant = "legacy"
       THEN Rebuild /\ UNCHANGED <<resizePending, lastWindowSize>>
       ELSE /\ resizePending' = TRUE
            /\ UNCHANGED <<lastWindowSize, rendererSize, sharedGeometry, geometries,
                           textCylinders>>
    /\ UNCHANGED <<variant, host, mounted, loads, joined, currentScrollProgress,
                   scrollTrigger, wheelListener, activeTweens, tweens, transition,
                   scrollTween, wheels, probe>>

\* the debounced handler runs
ResizeTimeoutFires ==
    /\ resizePending
    /\ resizePending' = FALSE
    /\ lastEvent' = Event("resized")
    /\ IF SizeUnchanged(window, lastWindowSize)
       THEN UNCHANGED <<lastWindowSize, rendererSize, sharedGeometry, geometries,
                        textCylinders>>
       ELSE lastWindowSize' = window /\ Rebuild
    /\ UNCHANGED <<variant, host, mounted, loads, joined, currentScrollProgress,
                   scrollTrigger, wheelListener, activeTweens, tweens, transition,
                   scrollTween, window, resizes, wheels, probe>>

(***************************************************************************)
(* onUnmounted.                                                            *)
(***************************************************************************)
Unmount ==
    /\ mounted
    /\ mounted' = FALSE
    /\ resizePending' = FALSE
    /\ wheelListener' = FALSE
    /\ scrollTrigger' = FALSE
    /\ tweens' = KillAll(tweens, {activeTweens[i] : i \in DOMAIN activeTweens})
    /\ activeTweens' = [i \in DOMAIN activeTweens |-> NoTween]
    /\ scrollTween' = NoScrollTween
    /\ lastEvent' = Event("unmount")
    /\ UNCHANGED <<variant, host, loads, joined, textCylinders, currentScrollProgress,
                   transition, window, lastWindowSize, rendererSize, sharedGeometry,
                   geometries, resizes, wheels, probe>>

(***************************************************************************)
(* animate: a frame of the render loop.  animate first requests the next   *)
(* frame and then calls renderer.render(scene, camera); where the renderer *)
(* was not created that call throws, each frame, out of the callback.      *)
(***************************************************************************)
Frame ==
    /\ mounted
    /\ IF host.webgl
       THEN UNCHANGED <<host, lastEvent>>
       ELSE /\ host.uncaught < MaxUncaught
            /\ host' = [host EXCEPT !.uncaught = @ + 1]
            /\ lastEvent' = Event("frame")
    /\ UNCHANGED <<variant, mounted, loads, joined, textCylinders,
                   currentScrollProgress, scrollTrigger, wheelListener, activeTweens,
                   tweens, transition, scrollTween, window, lastWindowSize,
                   rendererSize, resizePending, sharedGeometry, geometries, resizes,
                   wheels, probe>>

(***************************************************************************)
(* The specifications.                                                     *)
(***************************************************************************)
Next ==
    \/ \E failed \in LoadResults : ImagesSettle(failed)
    \/ \E p \in ProgressValues : ScrollUpdate(p)
    \/ \E m \in WheelSteps : Wheel(m)
    \/ \E q \in ProgressValues : TweenTick(q)
    \/ \E size \in WindowSizes : WindowResize(size)
    \/ ResizeTimeoutFires
    \/ Unmount

Spec == Init /\ [][Next]_vars

\* the wheel-snap component
InitSnap == Init /\ variant = "snap"
SpecSnap == InitSnap /\ [][Next]_vars

\* the tick of the snap component as the tween list and the event record
\* show it: a step of Next is a TweenTick step exactly if it is this step,
\* and the two are enabled in the same states
TickOfTweens ==
    /\ tweens # <<>>
    /\ ~scrollTween.active
    /\ lastEvent' = Event("tick")
    /\ tweens' = Remaining

\* the wheel-snap component under gsap's ticker, which runs on every animation
\* frame for as long as a tween is alive: a tick that stays possible happens
SpecSnapFair == SpecSnap /\ WF_<<tweens, lastEvent>>(TickOfTweens)

\* the two continuous-progress components
InitProgress == Init /\ variant \in {"continuous", "planes"}
SpecProgress == InitProgress /\ [][Next]_vars

\* the legacy component, whose resize handler is not debounced
InitLegacy == Init /\ variant = "legacy"
NextLegacy ==
    \/ \E failed \in LoadResults : ImagesSettle(failed)
    \/ \E p \in ProgressValues : ScrollUpdate(p)
    \/ \E m \in WheelSteps : Wheel(m)
    \/ \E q \in ProgressValues : TweenTick(q)
    \/ \E size \in WindowSizes : WindowResize(size)
    \/ Unmount
SpecLegacy == InitLegacy /\ [][NextLegacy]_vars

\* the two continuous-progress components on any page: with or without
\* WebGL, with or without a scrollable area
InitHost ==
    /\ \E webgl \in BOOLEAN, observer \in BOOLEAN : MountedOn(webgl, observer)
    /\ variant \in {"continuous", "planes"}
    /\ probe = NoProbe
NextHost ==
    \/ \E failed \in LoadResults : ImagesSettle(failed)
    \/ \E p \in ProgressValues : ScrollUpdate(p)
    \/ \E m \in WheelSteps : Wheel(m)
    \/ \E q \in ProgressValues : TweenTick(q)
    \/ \E size \in WindowSizes : WindowResize(size)
    \/ ResizeTimeoutFires
    \/ Unmount
    \/ Frame
SpecHost == InitHost /\ [][NextHost]_vars

(***************************************************************************)
(* The pure layout specification: the functions above applied to sampled   *)
(* inputs.  probe holds the input and, once applied, the results.          *)
(***************************************************************************)
ProbeInputs ==
    {[n |-> n, j |-> j, sub |-> s] :
        n \in 1..MaxImages, j \in 0..(MaxImages * SubSteps), s \in {3, SubSteps}}

InitProbe ==
    /\ Mounted
    /\ variant = "continuous"
    /\ \E in \in ProbeInputs :
        /\ in.j <= in.n * in.sub
        /\ probe = [n |-> in.n, p |-> Rat(in.j, in.n * in.sub), applied |-> FALSE,
                    eased |-> Undef, factors |-> [i \in 0..2 |-> Undef]]

ApplyLayout ==
    /\ ~probe.applied
    /\ probe' = [probe EXCEPT !.applied = TRUE,
                              !.eased = EasedProgress(probe.p, probe.n),
                              !.factors = TextColorFactors(probe.p)]
    /\ UNCHANGED <<variant, host, mounted, loads, joined, textCylinders,
                   currentScrollProgress, scrollTrigger, wheelListener, activeTweens,
                   tweens, transition, scrollTween, window, lastWindowSize,
                   rendererSize, resizePending, sharedGeometry, geometries, resizes,
                   wheels, lastEvent>>

ProbeSpec == InitProbe /\ [][ApplyLayout]_vars

(***************************************************************************)
(* The pure angle specification: normalizeAngle and findCurrentIndex       *)
(* applied to a ring of n image layers that transitions have turned by r   *)
(* steps.                                                                  *)
(***************************************************************************)
\* how far the ring is turned, either way
MaxTurns == 4

\* the ring turned the other way: layer.angle + direction * angleStep
TurnedRingForward(n, r) ==
    LET made == createImageCylinders("snap", n, <<"cyl", 1>>)
    IN  [i \in DOMAIN made |->
            [made[i] EXCEPT !.angle = RAdd(made[i].phase, Rat(r, n)),
                            !.pos = Frac(RAdd(made[i].phase, Rat(r, n)))]]

\* the image layers of n images, each r steps from where it was created
TurnedRing(n, r) ==
    LET made == createImageCylinders("snap", n, <<"cyl", 1>>)
    IN  [i \in DOMAIN made |->
            [made[i] EXCEPT !.angle = RSub(made[i].phase, Rat(r, n)),
                            !.pos = Frac(RSub(made[i].phase, Rat(r, n)))]]

InitAngles ==
    /\ Mounted
    /\ variant = "snap"
    /\ \E n \in 1..MaxImages, r \in (-MaxTurns)..MaxTurns :
          probe = [n |-> n, r |-> r, applied |-> FALSE,
                   normalized |-> [i \in 1..n |-> Undef], current |-> -1]

ApplyAngles ==
    /\ ~probe.applied
    /\ probe' = [probe EXCEPT
                    !.applied = TRUE,
                    !.normalized = [i \in 1..probe.n |->
                                       normalizeAngle(TurnedRing(probe.n, probe.r)[i].angle)],
                    !.current = findCurrentIndex(TurnedRing(probe.n, probe.r))]
    /\ UNCHANGED <<variant, host, mounted, loads, joined, textCylinders,
                   currentScrollProgress, scrollTrigger, wheelListener, activeTweens,
                   tweens, transition, scrollTween, window, lastWindowSize,
                   rendererSize, resizePending, sharedGeometry, geometries, resizes,
                   wheels, lastEvent>>

AngleSpec == InitAngles /\ [][ApplyAngles]_vars

(***************************************************************************)
(* The text-texture canvas of 3DText.vue and FlyInTexts.vue: its width and *)
(* height are nextPowerOfTwo of the measured size plus twice the padding,  *)
(* an integer, the measured size being rounded up with Math.ceil.          *)
(***************************************************************************)
\* the largest required size sampled
MaxValue == 300

RECURSIVE Pow2(_)
\* 2 ** k
Pow2(k) == IF k <= 0 THEN 1 ELSE 2 * Pow2(k - 1)

RECURSIVE CeilLog2(_)
\* Math.ceil(Math.log2(v)) for an integer v >= 1
CeilLog2(v) == IF v <= 1 THEN 0 ELSE 1 + CeilLog2((v + 1) \div 2)

\* the power of two below: Math.floor in the place of Math.ceil
nextPowerOfTwoFloor(value) == Pow2(CeilLog2((IF value < 1 THEN 1 ELSE value) + 1) - 1)

\* 2 ** Math.ceil(Math.log2(Math.max(1, value)))
nextPowerOfTwo(value) == Pow2(CeilLog2(IF value < 1 THEN 1 ELSE value))

InitCanvas ==
    /\ Mounted
    /\ variant = "continuous"
    /\ \E v \in 0..MaxValue : probe = [value |-> v, applied |-> FALSE, size |-> 0]

\* canvas.width = nextPowerOfTwo(textWidth + padding * 2)
SizeCanvas ==
    /\ ~probe.applied
    /\ probe' = [probe EXCEPT !.applied = TRUE, !.size = nextPowerOfTwo(probe.value)]
    /\ UNCHANGED <<variant, host, mounted, loads, joined, textCylinders,
                   currentScrollProgress, scrollTrigger, wheelListener, activeTweens,
                   tweens, transition, scrollTween, window, lastWindowSize,
                   rendererSize, resizePending, sharedGeometry, geometries, resizes,
                   wheels, lastEvent>>

CanvasSpec == InitCanvas /\ [][SizeCanvas]_vars

(***************************************************************************)
(* Properties.                                                             *)
(***************************************************************************)
\* the live tweens on property prop of layer i, told apart by their batch
TweensOn(i, prop) ==
    {<<b, t>> \in UNION {{<<c, u>> : u \in tweens[c]} : c \in DOMAIN tweens} :
        t.layer = i /\ t.prop = prop}

\* the step is a run of the debounced resize handler
ResizeHandlerRuns == resizePending /\ ~resizePending' /\ mounted'

\* the step replaces the shared geometry
RebuildStep == sharedGeometry' # sharedGeometry

\* C1: in the wheel-snap component a wheel event delivered while
\* isTransitioning is true starts no tween and changes no layer, no target and
\* no transition bookkeeping; when the running transition completes no
\* transition tween is left or started (nothing was queued); and no layer ever
\* has two live transition tweens.
C1_WheelDroppedWhileTransitioning ==
    /\ [][(lastEvent'.kind = "wheel" /\ transition.active)
            => /\ tweens' = tweens
               /\ activeTweens' = activeTweens
               /\ textCylinders' = textCylinders
               /\ transition' = transition]_vars
    /\ [][(transition.active /\ ~transition'.active)
            => /\ tweens' = <<>>
               /\ \A i \in DOMAIN activeTweens' : activeTweens'[i] = NoTween]_vars
    /\ [](\A i \in DOMAIN textCylinders : Cardinality(TweensOn(i, "angle")) <= 1)

\* a wheel event has been delivered while a transition was running, and the
\* transition's tweens are still live
C1_Witness ==
    /\ variant = "snap"
    /\ lastEvent = [kind |-> "wheel", during |-> TRUE]
    /\ transition.active
    /\ \E i \in DOMAIN textCylinders : Cardinality(TweensOn(i, "angle")) = 1

\* the animated fields of a layer list
Animated(layers) ==
    [i \in DOMAIN layers |->
        <<layers[i].offset, layers[i].color, layers[i].pos, layers[i].angle>>]

\* the layer list of a component that has just got its layers
FreshLayers ==
    IF joined = "resolved"
    THEN ThenImageLayers(variant, createTextCylinders(variant, sharedGeometry),
                         sharedGeometry, Zero)
    ELSE createTextCylinders(variant, sharedGeometry)

\* C2: in the continuous-progress components, from every reachable layer
\* state and for every progress p, a second direct update with the same p
\* changes nothing, and the animated fields after a direct update are those
\* the same update gives freshly created layers: they depend on p alone.
C2_DirectUpdateIdempotent ==
    \A p \in ProgressValues :
        LET spo == StartPhaseOffset(ImageCount(textCylinders))
            once == UpdateDirect(variant, textCylinders, p, spo, TRUE)
        IN  /\ UpdateDirect(variant, once, p, spo, TRUE) = once
            /\ Animated(once)
               = Animated(UpdateDirect(variant, FreshLayers, p, spo, TRUE))

\* the scroll observer has just applied progress 1/2 directly to the six
\* image and three text layers, and a second update would leave them alone
C2_Witness ==
    /\ variant \in {"continuous", "planes"}
    /\ lastEvent.kind = "scroll"
    /\ currentScrollProgress = Rat(1, 2)
    /\ ImageCount(textCylinders) = NumPaths
    /\ \E i \in DOMAIN textCylinders :
            textCylinders[i].type = "text" /\ textCylinders[i].color = Rat(1, 2)
    /\ textCylinders =
          UpdateDirect(variant, textCylinders, currentScrollProgress,
                       StartPhaseOffset(NumPaths), TRUE)

\* C3: for every image count n >= 1 and every k in 0..n the eased progress
\* computed for progress k/n is k/n.
C3_SegmentBoundariesFixed ==
    (probe.applied /\ \E k \in 0..probe.n : probe.p = Rat(k, probe.n))
        => probe.eased = probe.p

\* the easing has been applied at the boundary 5/6 of six images
C3_Witness ==
    /\ probe.applied
    /\ probe.n = NumPaths
    /\ probe.p = Rat(5, 6)
    /\ probe.eased = Rat(5, 6)

\* the array [a, b, c], indexed from 0
Array3(a, b, c) == [i \in 0..2 |-> CASE i = 0 -> a [] i = 1 -> b [] OTHER -> c]

\* C4: the crossfade factors are [1,0,0] at progress 0, [0,1,0] at progress
\* 1/3 and [0,0,1] at progress 1.
C4_CrossfadeAtThirds ==
    probe.applied =>
        /\ probe.p = Zero => probe.factors = Array3(One, Zero, Zero)
        /\ probe.p = Rat(1, 3) => probe.factors = Array3(Zero, One, Zero)
        /\ probe.p = One => probe.factors = Array3(Zero, Zero, One)

\* the factors have been computed at progress 1, where segmentIndex is 2
C4_Witness ==
    /\ probe.applied
    /\ probe.p = One
    /\ probe.factors[2] = One

\* C5: in every component and every reachable state, each property of
\* each layer has at most one live tween.
C5_OneTweenPerProperty ==
    \A i \in DOMAIN textCylinders :
        \A prop \in {"offset", "position", "rotation", "angle"} :
            Cardinality(TweensOn(i, prop)) <= 1

\* C6: a run of the debounced resize handler that sees the window at the
\* size the scene already has neither disposes nor replaces a geometry.
C6_SameSizeRebuildsNothing ==
    [][(ResizeHandlerRuns /\ window = rendererSize)
         => /\ sharedGeometry' = sharedGeometry
            /\ geometries' = geometries]_vars

\* C7: a run of the resize handler that sees a changed size calls dispose()
\* on the old shared geometry once, creates one cylinder geometry, which is the
\* new shared one and not disposed, and leaves every text layer with it.
C7_RebuildDisposesOnce ==
    [][(ResizeHandlerRuns /\ window # rendererSize)
         => /\ geometries'[sharedGeometry] = geometries[sharedGeometry] + 1
            /\ {g \in DOMAIN geometries' : g[1] = "cyl"} \ DOMAIN geometries
               = {sharedGeometry'}
            /\ geometries'[sharedGeometry'] = 0
            /\ \A i \in DOMAIN textCylinders' :
                  textCylinders'[i].type = "text"
                      => textCylinders'[i].geom = sharedGeometry']_vars

\* C8: every image layer keeps its own plane geometry, never disposed.
C8_ImagePlanesUntouched ==
    \A i \in DOMAIN textCylinders :
        IsImageLayer(textCylinders[i])
            => /\ textCylinders[i].geom = <<"plane", textCylinders[i].image>>
               /\ textCylinders[i].geom \in DOMAIN geometries
                      => geometries[textCylinders[i].geom] = 0

\* C9: when a resize has replaced the shared geometry, every layer is where
\* a direct update for currentScrollProgress puts it.
C9_RebuildReappliesProgress ==
    [][(ResizeHandlerRuns /\ RebuildStep)
         => textCylinders'
            = UpdateDirect(variant, textCylinders', currentScrollProgress',
                           StartPhaseOffset(ImageCount(textCylinders')), TRUE)]_vars

\* C10: once the loads have settled, every image that loaded has its layer.
C10_LoadedImagesHaveLayers ==
    joined # "waiting"
        => \A i \in 1..NumPaths :
              loads[i] = "ok"
                  => \E k \in DOMAIN textCylinders : textCylinders[k].image = i

\* C11: in the wheel-snap component with no image layer, a wheel event starts
\* no transition, leaves isTransitioning false and changes no layer and no
\* tween; and isTransitioning is never true while there is no image layer.
C11_WheelInertWithoutImages ==
    /\ [][(variant = "snap" /\ ImageCount(textCylinders) = 0
           /\ lastEvent'.kind = "wheel")
            => /\ ~transition'.active
               /\ transition' = transition
               /\ textCylinders' = textCylinders
               /\ tweens' = tweens
               /\ activeTweens' = activeTweens
               /\ currentScrollProgress' = currentScrollProgress]_vars
    /\ []((variant = "snap" /\ ImageCount(textCylinders) = 0) => ~transition.active)

\* the image loads have failed and a wheel event with a nonzero delta has
\* been delivered to the window
C11_Witness ==
    /\ variant = "snap"
    /\ mounted
    /\ joined = "rejected"
    /\ ImageCount(textCylinders) = 0
    /\ lastEvent.kind = "wheel"
    /\ ~transition.active

\* the image layers of n images as a direct update with startPhaseOffset 1/n
\* places them at progress
PlacedImages(v, n, progress) ==
    UpdateDirect(v, createImageCylinders(v, n, <<"cyl", 1>>), progress,
                 StartPhaseOffset(n), TRUE)

\* C12: for every image count n >= 1, a direct update at progress 0 with
\* startPhaseOffset 1/n leaves no image layer at an angle that is a whole
\* number of turns, and neither does the placement the image layers have when
\* they are added, before any scroll or wheel input.
C12_NoImageCenteredAtStart ==
    /\ \A n \in 1..MaxImages :
          \A i \in 1..n : Frac(PlacedImages("snap", n, Zero)[i].angle) # Zero
    /\ (variant = "snap" /\ lastEvent.kind \in {"mount", "load"})
          => \A i \in ImageIdx(textCylinders) : Frac(textCylinders[i].angle) # Zero

\* a quarter of the step between two images, in turns
Tolerance(n) == Rat(1, 4 * n)

\* the layers whose angle is within tol of the centre angle 0
NearCenter(layers, tol) ==
    {i \in DOMAIN layers : RLeq(RAbs(normalizeAngle(layers[i].angle)), tol)}

AngleTweens(i) == {t \in LiveTweens : t.layer = i /\ t.prop = "angle"}

\* every image layer is r steps from where it was created, but for those whose
\* transition tween is still running, which are r0 steps from there and
\* have r steps as their tween's target
RingTurned(r0, r) ==
    LET n == ImageCount(textCylinders)
    IN  \A i \in ImageIdx(textCylinders) :
            LET l == textCylinders[i]
            IN  IF AngleTweens(i) = {}
                THEN l.angle = RSub(l.phase, Rat(r, n))
                ELSE /\ l.angle = RSub(l.phase, Rat(r0, n))
                     /\ \A t \in AngleTweens(i) : t.to = RSub(l.phase, Rat(r, n))

\* C14: in the wheel-snap component a transition gives every image layer a
\* tween to its angle minus direction times one step 1/n of a turn; a
\* layer's stored angle changes only when that tween completes, to the tween's
\* target, one step from where it was; so with no transition in flight every
\* image layer is the same whole number of steps from where it was created
\* (the spacing between any two is as created), and during a transition the
\* layers are at the old or at the new position, one step apart (while the
\* component is mounted: onUnmounted kills the tweens of a running transition).
C14_TransitionTurnsOneStep ==
    /\ [][(variant = "snap" /\ ~transition.active /\ transition'.active)
            => \E d \in {-1, 1} :
                  \A i \in ImageIdx(textCylinders) :
                      /\ Cardinality(AngleTweens(i)') = 1
                      /\ \A t \in AngleTweens(i)' :
                            t.to = RSub(textCylinders[i].angle,
                                        Rat(d, ImageCount(textCylinders)))]_vars
    /\ [][variant = "snap"
            => \A i \in ImageIdx(textCylinders) :
                  textCylinders'[i].angle # textCylinders[i].angle
                      => /\ \E t \in AngleTweens(i) : t.to = textCylinders'[i].angle
                         /\ RAbs(RSub(textCylinders'[i].angle, textCylinders[i].angle))
                            = Rat(1, ImageCount(textCylinders))]_vars
    /\ []((variant = "snap" /\ mounted /\ ImageCount(textCylinders) > 0)
            => \E r0 \in (-MaxRotation - 1)..(MaxRotation + 1) :
                  IF transition.active
                  THEN \E d \in {-1, 1} : RingTurned(r0, r0 + d)
                  ELSE RingTurned(r0, r0))

\* a transition in the direction +1 has completed: every image layer is one
\* step from where it was created and no transition tween is left
C14_Witness ==
    /\ variant = "snap"
    /\ ~transition.active
    /\ transition.completed = NumPaths
    /\ lastEvent.kind = "tick"
    /\ ImageCount(textCylinders) = NumPaths
    /\ \A i \in ImageIdx(textCylinders) : AngleTweens(i) = {}
    /\ RingTurned(1, 1)

\* the text layers of a layer list
TextLayers(layers) ==
    [i \in {j \in DOMAIN layers : layers[j].type = "text"} |-> layers[i]]

\* C15: in the wheel-snap component isTransitioning is cleared only by the
\* completion of the last of the transition's tweens, when all of them have
\* completed and none is left; that step leaves the text layers as the direct
\* update for progress targetIndex / n leaves them, and no earlier completion
\* of the transition touches the text layers.
C15_FlagClearedAfterAllComplete ==
    /\ [][(variant = "snap" /\ transition.active /\ ~transition'.active)
            => /\ lastEvent'.kind = "tick"
               /\ transition'.completed = transition.total
               /\ transition.total = ImageCount(textCylinders)
               /\ \A i \in ImageIdx(textCylinders) : AngleTweens(i)' = {}
               /\ textCylinders' =
                     UpdateDirect(variant, textCylinders',
                                  Rat(transition.targetIndex, transition.total),
                                  Rat(1, transition.total), FALSE)]_vars
    /\ [][(variant = "snap" /\ transition.active /\ transition'.active
           /\ lastEvent'.kind = "tick")
            => /\ transition'.completed < transition.total
               /\ TextLayers(textCylinders') = TextLayers(textCylinders)]_vars

\* the last tween of a transition to image 1 has completed: the flag is
\* clear and the text layers carry the crossfade of progress 1/6
C15_Witness ==
    /\ variant = "snap"
    /\ lastEvent = [kind |-> "tick", during |-> TRUE]
    /\ ~transition.active
    /\ transition.completed = NumPaths
    /\ transition.targetIndex = 1
    /\ \E i \in DOMAIN textCylinders :
          /\ textCylinders[i].type = "text"
          /\ textCylinders[i].index = 0
          /\ textCylinders[i].color = Rat(1, 2)

\* C16: in the wheel-snap component, whenever no transition is in flight the
\* colour of every text layer is the crossfade factor of progress c / n, c
\* being the index of the image layer closest to angle 0.
C16_TextTintFollowsCenter ==
    (variant = "snap" /\ ~transition.active /\ ImageCount(textCylinders) > 0)
        => \A i \in DOMAIN TextLayers(textCylinders) :
              textCylinders[i].color =
                  TextColorFactors(Rat(findCurrentIndex(textCylinders),
                                       ImageCount(textCylinders)))
                      [textCylinders[i].index]

\* x is the angle a up to whole turns
SameAngle(x, a) == Frac(RSub(x, a)) = Zero

\* findCurrentIndex's result is an image layer than which none has a smaller
\* absolute normalized angle
CurrentIsClosest ==
    /\ probe.current \in 0..(probe.n - 1)
    /\ \A k \in 1..probe.n :
          RLeq(RAbs(probe.normalized[probe.current + 1]), RAbs(probe.normalized[k]))

\* as stated, C17: normalizeAngle maps every stored angle to the equivalent
\* angle in the half-open interval (-1/2, 1/2] of a turn, and findCurrentIndex
\* returns a layer of smallest absolute normalized angle.
C17_NormalizedHalfOpen ==
    probe.applied =>
        /\ \A i \in 1..probe.n :
              /\ SameAngle(probe.normalized[i], TurnedRing(probe.n, probe.r)[i].angle)
              /\ RLess(Rat(-1, 2), probe.normalized[i])
              /\ RLeq(probe.normalized[i], Rat(1, 2))
        /\ CurrentIsClosest

\* C17: normalizeAngle maps every stored angle to an equivalent angle in the
\* closed interval [-1/2, 1/2] of a turn, which is -1/2 exactly when the stored
\* angle is negative and an odd number of half turns, and findCurrentIndex
\* returns a layer of smallest absolute normalized angle.
C17_NormalizedClosed ==
    probe.applied =>
        /\ \A i \in 1..probe.n :
              LET a == TurnedRing(probe.n, probe.r)[i].angle
                  x == probe.normalized[i]
              IN  /\ SameAngle(x, a)
                  /\ RLeq(Rat(-1, 2), x)
                  /\ RLeq(x, Rat(1, 2))
                  /\ x = Rat(-1, 2) <=> (a[1] < 0 /\ Frac(a) = Rat(1, 2))
        /\ CurrentIsClosest

\* the six-image ring has been turned three steps: the first layer's stored
\* angle is minus half a turn and is normalized to minus half a turn
C17_Witness ==
    /\ probe.applied
    /\ probe.n = NumPaths
    /\ probe.r = 3
    /\ TurnedRing(NumPaths, 3)[1].angle = Rat(-1, 2)
    /\ probe.normalized[1] = Rat(-1, 2)
    /\ probe.current = 3

\* the text layers' offsets are easedProgress * scrollDirection * speed
OffsetsFollow(v, layers, eased) ==
    \A i \in DOMAIN layers :
        ~IsImageLayer(layers[i])
            => layers[i].offset = RMul(RMul(eased, scrollDirection(v)), layers[i].speed)

\* C20: in the continuous-progress components a direct update for progress
\* p leaves every text layer's texture offset at easedProgress *
\* scrollDirection * speed: for the layers of the mounted component after a
\* scroll update, and for the text layers of either createTextCylinders,
\* the one of composables/useTextCylinders.js included, at every p.
C20_TextOffsetFollowsProgress ==
    /\ lastEvent.kind = "scroll"
          => OffsetsFollow(variant, textCylinders,
                           IF variant = "planes" THEN currentScrollProgress
                           ELSE EasedProgress(currentScrollProgress,
                                              ImageCount(textCylinders)))
    /\ \A p \in ProgressValues :
          \A made \in {createTextCylinders(variant, sharedGeometry),
                        useTextCylinders(sharedGeometry)} :
              OffsetsFollow(variant, UpdateDirect(variant, made, p, Zero, TRUE), p)

\* C18: where the creation of the WebGL renderer fails, the component logs
\* the failure and no exception leaves it, neither out of onMounted nor out
\* of a later frame of the render loop.
C18_RendererFailureContained ==
    ~host.webgl => /\ host.logged
                   /\ ~host.thrownInMount
                   /\ host.uncaught = 0

\* as stated, C19: where the creation of the scroll observer throws, no
\* observer exists, no exception leaves the component, and progress keeps
\* its value for the rest of the component's life.
C19_ProgressPinned ==
    /\ []((~host.observer /\ host.webgl) => (~scrollTrigger /\ host.uncaught = 0))
    /\ [][(~host.observer /\ host.webgl)
            => currentScrollProgress' = currentScrollProgress]_vars

\* C19: where the creation of the scroll observer throws, no observer exists
\* and no exception leaves the component (the scene keeps rendering); the
\* wheel listener is registered all the same once the images are loaded, and
\* progress changes only through wheel events: in the handler or in a frame of
\* the tween it started, never by a scroll update.
C19_ObserverFailureLeavesWheel ==
    /\ []((~host.observer /\ host.webgl)
            => /\ ~scrollTrigger
               /\ host.uncaught = 0
               /\ ~host.thrownInMount
               /\ (joined = "resolved" /\ mounted) => wheelListener)
    /\ [][(~host.observer /\ currentScrollProgress' # currentScrollProgress)
            => lastEvent'.kind \in {"wheel", "tick"}]_vars

\* the observer could not be created, the images are loaded, and a wheel
\* event has moved progress from 0 to 1/2
C19_Witness ==
    /\ ~host.observer
    /\ host.webgl
    /\ joined = "resolved"
    /\ ~scrollTrigger
    /\ wheelListener
    /\ lastEvent.kind = "wheel"
    /\ currentScrollProgress = Rat(1, 2)

\* C21: a resize event recomputes nothing itself; it leaves the recompute
\* scheduled, and the one run of the handler that follows the last event
\* of a burst leaves nothing scheduled.
C21_ResizeBurstCoalesced ==
    /\ [][(lastEvent'.kind = "resize" /\ resizes' # resizes)
            => /\ resizePending'
               /\ rendererSize' = rendererSize
               /\ sharedGeometry' = sharedGeometry
               /\ geometries' = geometries]_vars
    /\ [][(rendererSize' # rendererSize \/ sharedGeometry' # sharedGeometry)
            => (resizePending /\ ~resizePending')]_vars

\* C22: for every n >= 1, the n image layers createImageCylinders makes have
\* the phases 0/n, 1/n, ..., (n-1)/n in layer order: distinct, increasing and
\* in [0,1).
C22_PhasesEvenlySpaced ==
    probe.applied =>
        \A v \in {"continuous", "planes", "snap"} :
            LET made == createImageCylinders(v, probe.n, <<"cyl", 1>>)
            IN  /\ Len(made) = probe.n
                /\ \A i \in 1..probe.n :
                      /\ made[i].phase = Rat(i - 1, probe.n)
                      /\ RLeq(Zero, made[i].phase)
                      /\ RLess(made[i].phase, One)
                /\ \A i, j \in 1..probe.n :
                      i < j => RLess(made[i].phase, made[j].phase)

\* the ring of six image layers has been made: the last has phase 5/6
C22_Witness ==
    /\ probe.applied
    /\ probe.n = NumPaths
    /\ probe.r = 0
    /\ createImageCylinders("snap", probe.n, <<"cyl", 1>>)[NumPaths].phase = Rat(5, 6)
    /\ probe.current = 0

RECURSIVE IsPowerOfTwo(_)
IsPowerOfTwo(x) == x = 1 \/ (x > 1 /\ x % 2 = 0 /\ IsPowerOfTwo(x \div 2))

\* C23: for every required size v >= 1 the canvas dimension nextPowerOfTwo
\* gives is a power of two, at least v and less than 2 v: the smallest
\* power of two that is at least v.
C23_CanvasIsNextPowerOfTwo ==
    (probe.applied /\ probe.value >= 1)
        => /\ IsPowerOfTwo(probe.size)
           /\ probe.size >= probe.value
           /\ probe.size < 2 * probe.value

\* the canvas for a required size of 129, one above a power of two, has been
\* sized to 256
C23_Witness ==
    /\ probe.applied
    /\ probe.value = 129
    /\ probe.size = 256

\* C24: in the snap variant a started transition completes: while the
\* component stays mounted a transition in flight always has a tween of its
\* own still running, and isTransitioning returns to false (or the component
\* is torn down first), which is what unblocks the wheel handler.
C24_TransitionCompletes ==
    /\ []((mounted /\ transition.active)
            => \E t \in LiveTweens : t.kind = "transition")
    /\ (mounted /\ transition.active) ~> (~transition.active \/ ~mounted)

\* a backward transition has run to its end on the mounted component and no
\* tween is left
C24_Witness ==
    /\ variant = "snap"
    /\ mounted
    /\ ~transition.active
    /\ transition.completed = NumPaths
    /\ transition.targetIndex = NumPaths - 1
    /\ tweens = <<>>

\* C25: in the continuous variant, whenever no tween is running on the
\* mounted component, every layer's texture offset is the target computed
\* from currentScrollProgress: no tween started for an older progress value
\* has written over the offset a later direct update set.
C25_SettledOffsetsFollowProgress ==
    (variant = "continuous" /\ mounted /\ tweens = <<>>)
        => \A i \in DOMAIN textCylinders :
              textCylinders[i].offset =
                  UpdateDirect(variant, textCylinders, currentScrollProgress,
                               StartPhaseOffset(ImageCount(textCylinders)),
                               TRUE)[i].offset

\* C26: once onUnmounted has run, no wheel listener and no scroll observer
\* of the component is registered, whether the images finished loading
\* before the teardown or finish after it.
C26_NothingRegisteredAfterTeardown ==
    ~mounted => (~wheelListener /\ ~scrollTrigger)

\* C27: for every image count n >= 1 and every ring reached by transitions,
\* if image layer c is the one closest to angle 0 then after one more
\* completed transition of direction d the closest is (c + d) mod n, the
\* targetIndex performTransition computed, and that layer is exactly at 0.
C27_CenterAdvancesByDirection ==
    probe.applied =>
        \A d \in {-1, 1} :
            LET prevIndex == probe.current
                targetIndex == (prevIndex + d + probe.n) % probe.n
                after == TurnedRing(probe.n, probe.r + d)
            IN  /\ findCurrentIndex(after) = targetIndex
                /\ normalizeAngle(after[targetIndex + 1].angle) = Zero

\* a ring of five images three transitions back has layer 2 at the center,
\* and one more transition back brings layer 1 there
C27_Witness ==
    /\ probe.applied
    /\ probe.n = 5
    /\ probe.r = -3
    /\ probe.current = 2
    /\ findCurrentIndex(TurnedRing(5, -4)) = 1

\* C28: currentScrollProgress is in [0,1] in every reachable state, and so
\* is the target of the progress proxy's tween; a wheel event leaves the
\* progress, or that target, at the clamped sum of the progress and one of
\* the wheel steps.
C28_ProgressInUnitInterval ==
    /\ [](/\ RLeq(Zero, currentScrollProgress) /\ RLeq(currentScrollProgress, One)
          /\ scrollTween.active
                => (RLeq(Zero, scrollTween.to) /\ RLeq(scrollTween.to, One)))
    /\ [][(lastEvent'.kind = "wheel" /\ wheelListener)
            => \E m \in WheelSteps :
                  LET sum == RAdd(currentScrollProgress, Rat(m, Grid))
                      newProgress == RMax(Zero, RMin(One, sum))
                  IN  IF variant = "planes"
                      THEN scrollTween'.to = newProgress
                      ELSE currentScrollProgress' = newProgress]_<<lastEvent, tweens, scrollTween, currentScrollProgress>>

\* the continuous component has handled a wheel event that left the progress
\* at its upper end, and the tweens toward the last image are running
C28_Witness ==
    /\ variant = "continuous"
    /\ lastEvent.kind = "wheel"
    /\ currentScrollProgress = One
    /\ tweens # <<>>

\* C29: for every progress in [0,1] each of the three text crossfade
\* factors is in [0,1], the three sum to exactly 1, and the third is 1 for
\* every progress from 2/3 to 1.
C29_CrossfadeFactorsPartition ==
    probe.applied =>
        /\ \A i \in 0..2 :
              RLeq(Zero, probe.factors[i]) /\ RLeq(probe.factors[i], One)
        /\ RAdd(RAdd(probe.factors[0], probe.factors[1]), probe.factors[2]) = One
        /\ RLeq(Rat(2, 3), probe.p) => probe.factors[2] = One

\* the factors have been computed at progress 5/6, inside the last third
C29_Witness ==
    /\ probe.applied
    /\ probe.p = Rat(5, 6)
    /\ probe.factors = Array3(Zero, Zero, One)

\* C30: in the snap variant a scroll-observer update leaves every image
\* layer's stored angle and mesh position as they were, with or without a
\* transition in flight; an image layer's angle or position changes only in
\* a gsap tick that completes a tween of a wheel-triggered transition.
C30_ScrollLeavesImagesAlone ==
    /\ [][(variant = "snap" /\ lastEvent'.kind = "scroll")
            => /\ ImageIdx(textCylinders') = ImageIdx(textCylinders)
               /\ \A i \in ImageIdx(textCylinders) :
                     /\ textCylinders'[i].angle = textCylinders[i].angle
                     /\ textCylinders'[i].pos = textCylinders[i].pos]_<<lastEvent, textCylinders, currentScrollProgress>>
    /\ [][variant = "snap"
            => \A i \in ImageIdx(textCylinders) :
                  (\/ textCylinders'[i].angle # textCylinders[i].angle
                   \/ textCylinders'[i].pos # textCylinders[i].pos)
                      => /\ lastEvent'.kind = "tick"
                         /\ \E t \in LiveTweens :
                               /\ t.kind = "transition"
                               /\ t.layer = i
                               /\ t.to = textCylinders'[i].angle]_vars

\* the scroll observer has reported progress 1 to the snap component while
\* a transition of its six images was in flight
C30_Witness ==
    /\ variant = "snap"
    /\ lastEvent = [kind |-> "scroll", during |-> TRUE]
    /\ currentScrollProgress = One
    /\ transition.active
    /\ ImageCount(textCylinders) = NumPaths

=============================================================================
